---------------------------- MODULE Spec2Model ----------------------------
(***************************************************************************)
(* The cluster controller of elasticluster (elasticluster/cluster.py) and  *)
(* the provider base it drives (providers/cloud_provider.py), as a state   *)
(* machine.  One command of the command line runs at a time (but for the    *)
(* specification of two processes at the end); every command               *)
(* is a fresh process that constructs the Cluster (loading the state file) *)
(* and then calls one controller operation.  A provider call (list_nodes,  *)
(* start_instance, stop_instance) is a step of the environment: it may     *)
(* raise, and list_nodes may leave out an instance that is still pending   *)
(* and may still report an instance that was destroyed.                    *)
(***************************************************************************)
EXTENDS Integers, Sequences, FiniteSets

VARIABLES
    options,     \* Cluster.options: sequence of <<key, value>>, in dict order
    instances,   \* the provider's instances, by id: [name, state]
    nodes,       \* Cluster.nodes: sequence of [id, name, state]
    file,        \* the cluster's state file: [status, doc]
    stop_calls,  \* ids on which provider.stop_instance has been invoked
    faults,      \* provider calls that went wrong so far
    op,          \* the command in progress and where it stands
    known_hosts, \* the cluster's known-hosts file: [status, keys]
    ssh,         \* the call of node_ssh_address_and_port in progress
    setup,       \* Cluster.setup: its options, and what the setup provider
                 \* was handed by each configure of this process
    main,        \* the process of the command line: flag, exit code, warning
    peer,        \* a second process of the command line, while it is not
                 \* the one that runs: its command and its Cluster.nodes
    storage,     \* the names of the other files of the storage directory
    login        \* Cluster.login.options: image_sudo and image_user_sudo

vars == <<options, instances, nodes, file, stop_calls, faults, op,
          known_hosts, ssh, setup, main, peer, storage, login>>

---------------------------------------------------------------------------
(* Bounds of the model.                                                    *)

\* instances the provider is asked to create in one behaviour
MaxInst == 2
\* largest node count in an option, or in a request to add or remove
MaxCount == 2
\* provider calls that go wrong in one behaviour: a call that raises, a
\* listing that leaves out a pending instance or still holds a destroyed one
MaxFaults == 1
\* Cluster.startup_timeout, in polling intervals
Deadline == 2
\* refused connections before an address that accepts does accept
MaxRetry == 1
\* longest startup_timeout of a timed wait, in polling intervals
MaxWaitDeadline == 7
\* latest time an instance comes to run, in polling intervals
MaxBoot == 5
\* most setup options of a configuration
MaxSetupOptions == 3

---------------------------------------------------------------------------
(* Strings are sequences of one-character strings.                         *)

\* the cluster's name (template == name: the canonical instance)
ClusterName == <<"c">>

Digits == <<"0", "1", "2", "3", "4", "5", "6", "7", "8", "9">>

IsDigit(c) == \E d \in 1..10 : Digits[d] = c

DigitVal(c) == (CHOOSE d \in 1..10 : Digits[d] = c) - 1

Abs(x) == IF x < 0 THEN 0 - x ELSE x

\* the decimal digits of n >= 0, most significant first
RECURSIVE Decimal(_)
Decimal(n) == IF n < 10 THEN <<Digits[n + 1]>>
              ELSE Append(Decimal(n \div 10), Digits[(n % 10) + 1])

RECURSIVE ZeroPad(_, _)
ZeroPad(s, width) == IF Len(s) >= width THEN s ELSE ZeroPad(<<"0">> \o s, width)

\* '{:03}'.format(x): sign first, then zeros up to a width of three
Format03(x) == IF x < 0 THEN <<"-">> \o ZeroPad(Decimal(Abs(x)), 2)
               ELSE ZeroPad(Decimal(x), 3)

\* '{}-{}{:03}'.format(self.name, node_type, x)
node_name(node_type, x) == ClusterName \o <<"-">> \o node_type \o Format03(x)

\* sub occurs in s at position i
OccursAt(s, sub, i) ==
    /\ i >= 1
    /\ i + Len(sub) - 1 <= Len(s)
    /\ \A k \in 1..Len(sub) : s[i + k - 1] = sub[k]

\* Python's  sub in s
Contains(s, sub) == \E i \in 1..(Len(s) + 1) : OccursAt(s, sub, i)

\* the least position >= from at which sub occurs in s, or 0
FindFrom(s, sub, from) ==
    IF \E i \in from..Len(s) : OccursAt(s, sub, i)
    THEN CHOOSE i \in from..Len(s) :
            /\ OccursAt(s, sub, i)
            /\ \A j \in from..(i - 1) : ~OccursAt(s, sub, j)
    ELSE 0

\* Python's  s.split(sep)[1], for a non-empty sep that occurs in s
SplitSecond(s, sep) ==
    LET first  == FindFrom(s, sep, 1)
        start  == first + Len(sep)
        second == FindFrom(s, sep, start)
        stop   == IF second = 0 THEN Len(s) ELSE second - 1
    IN  SubSeq(s, start, stop)

\* Python's  s.split(sep)[0]
SplitFirst(s, sep) ==
    LET first == FindFrom(s, sep, 1)
    IN  IF first = 0 THEN s ELSE SubSeq(s, 1, first - 1)

RECURSIVE DecimalValue(_)
DecimalValue(s) == IF s = <<>> THEN 0
                   ELSE 10 * DecimalValue(SubSeq(s, 1, Len(s) - 1)) + DigitVal(s[Len(s)])

\* Python's  int(s): [ok, val]; not ok stands for ValueError
ParseInt(s) ==
    LET neg  == s # <<>> /\ s[1] = "-"
        body == IF neg THEN Tail(s) ELSE s
    IN  IF body # <<>> /\ \A k \in 1..Len(body) : IsDigit(body[k])
        THEN [ok |-> TRUE, val |-> IF neg THEN 0 - DecimalValue(body) ELSE DecimalValue(body)]
        ELSE [ok |-> FALSE, val |-> 0]

---------------------------------------------------------------------------
(* Sequences.                                                              *)

Names(ns) == {ns[i].name : i \in DOMAIN ns}

Ids(ns) == {ns[i].id : i \in DOMAIN ns}

\* the sequence without its element at position i
RemoveAt(s, i) == SubSeq(s, 1, i - 1) \o SubSeq(s, i + 1, Len(s))

\* a lookup that takes the first node whatever it is called
first_node(ns, name) == IF ns = <<>> THEN 0 ELSE 1

\* position of the first node called name, or 0
FirstNamed(ns, name) ==
    IF \E i \in DOMAIN ns : ns[i].name = name
    THEN CHOOSE i \in DOMAIN ns :
            /\ ns[i].name = name
            /\ \A j \in 1..(i - 1) : ns[j].name # name
    ELSE 0

\* range(a, b) of Python, ascending
RECURSIVE UpTo(_, _)
UpTo(a, b) == IF a > b THEN <<>> ELSE <<a>> \o UpTo(a + 1, b)

\* range(a, b, -1) of Python: a, a-1, ..., b+1
RECURSIVE DownTo(_, _)
DownTo(a, b) == IF a <= b THEN <<>> ELSE <<a>> \o DownTo(a - 1, b)

---------------------------------------------------------------------------
(* The provider (CloudProvider over a libcloud driver).                    *)

\* the libcloud Node the driver reports for instance id
NodeOf(inst, id) == [id |-> id, name |-> inst[id].name, state |-> inst[id].state]

\* What one call of driver.list_nodes() may answer: it raises (not ok), or it
\* lists a set of instances that holds every running one; an instance still
\* pending may be missing and a destroyed one may still be listed.
ListOutcomes(inst) ==
    {[ok |-> TRUE, ids |-> S] :
        S \in {T \in SUBSET (DOMAIN inst) :
                  \A i \in DOMAIN inst : inst[i].state = "running" => i \in T}}
    \cup {[ok |-> FALSE, ids |-> {}]}

\* the listing when nothing goes wrong: the instances that were not destroyed
Exact(inst) == [ok |-> TRUE, ids |-> {i \in DOMAIN inst : inst[i].state # "terminated"}]

ListFault(inst, listing) == IF listing = Exact(inst) THEN 0 ELSE 1

\* CloudProvider.list_nodes: the listed instances as Nodes, by ascending id
list_nodes(inst, ids) ==
    LET F[k \in 0..Len(inst)] ==
            IF k = 0 THEN <<>>
            ELSE IF k \in ids THEN Append(F[k - 1], NodeOf(inst, k))
            ELSE F[k - 1]
    IN  F[Len(inst)]

\* CloudProvider.start_node: driver.create_node; the new instance is pending
start_node(inst, name) == Append(inst, [name |-> name, state |-> "pending"])

\* What CloudProvider._get_node(node) may answer: the listing raises, or the
\* node's id is in it ("found") or not ("missing")
GetNodeOutcomes(inst, id) ==
    IF inst[id].state = "running" THEN {"raise", "found"}
    ELSE {"raise", "found", "missing"}

GetNodeFault(inst, id, got) ==
    IF got = (IF inst[id].state = "terminated" THEN "missing" ELSE "found") THEN 0 ELSE 1

CallFault(ok) == IF ok THEN 0 ELSE 1

\* CloudProvider.stop_instance(node): _get_node looks the node up by id in a
\* fresh listing; only a listed node has its floating address released and is
\* destroyed.  ok = FALSE: the release or the destroy raises.
stop_instance(inst, calls, node, got, ok) ==
    [raised     |-> got = "raise" \/ (got = "found" /\ ~ok),
     instances  |-> IF got = "found" /\ ok
                    THEN [inst EXCEPT ![node.id].state = "terminated"]
                    ELSE inst,
     stop_calls |-> calls \cup {node.id}]

---------------------------------------------------------------------------
(* The state file.                                                         *)

\* the type of the state files
storage_type == <<"y", "a", "m", "l">>

\* Cluster.__storage_file_path, inside the storage directory
storage_file_path(name) == name \o <<".">> \o storage_type

\* Cluster.known_host_file, inside the storage directory
known_host_file(name) == name \o <<".", "k", "n", "o", "w", "n", "_", "h", "o", "s", "t", "s">>

\* os.path.splitext(path)[0]: the path up to its last dot
splitext(path) ==
    LET dots == {i \in DOMAIN path : path[i] = "."}
    IN  IF dots = {} THEN path
        ELSE SubSeq(path, 1, (CHOOSE i \in dots : \A k \in dots : k <= i) - 1)

\* Cluster.stop: file_root
file_root(name) == splitext(storage_file_path(name))

\* glob.glob of a pattern that ends in its only wildcard, over the names of
\* a directory
glob(pattern, names) ==
    {n \in names : OccursAt(n, SubSeq(pattern, 1, Len(pattern) - 1), 1)}

NoFile == [status |-> "absent", template |-> <<>>, name |-> <<>>,
           options |-> <<>>, nodes |-> <<>>]

\* the file as open(path, 'w') leaves it before anything is written
EmptyFile == [NoFile EXCEPT !.status = "empty"]

\* storage_buffer of __dump, written as yaml
Document(opts, ns) == [status |-> "doc", template |-> ClusterName,
                       name |-> ClusterName, options |-> opts, nodes |-> ns]

\* no <name>.known_hosts in the storage directory
NoHosts == [status |-> "absent", keys |-> {}]

\* HostKeys.add: the key of the host is set, in place of the one it had
AddHostKey(keys, host, key) ==
    {e \in keys : e.host # host} \cup {[host |-> host, key |-> key]}

\* keys.add(host, t, d) for every host of ssh.get_host_keys()
MergeHostKeys(keys, client) ==
    {e \in keys : \A c \in client : c.host # e.host} \cup client

\* the file after the keys of the client were merged into it and saved
SaveHostKeys(kh, client) ==
    [status |-> "file", keys |-> MergeHostKeys(kh.keys, client)]

---------------------------------------------------------------------------
(* Cluster.                                                                *)

\* a refresh that takes the whole listing, whatever the inventory holds
update_all_listed(ns, listed) == listed

\* Cluster.__update_node_states: the listed nodes whose name is in the inventory
update_node_states(ns, listed) ==
    SelectSeq(listed, LAMBDA pn : \E i \in DOMAIN ns : ns[i].name = pn.name)

\* Cluster.__load: the nodes of the document (the modern, list-shaped one);
\* an empty file has no document and the load raises
load(f) == [ok |-> f.status = "doc", nodes |-> f.nodes]

\* Cluster.__init__: the class's empty node list, or, when the state file
\* exists, __load(True): the file's nodes refreshed against the provider
construct(f, inst, listing) ==
    IF f.status = "absent" THEN [ok |-> TRUE, nodes |-> <<>>]
    ELSE IF ~load(f).ok \/ ~listing.ok THEN [ok |-> FALSE, nodes |-> <<>>]
    ELSE [ok |-> TRUE,
          nodes |-> update_node_states(load(f).nodes, list_nodes(inst, listing.ids))]

\* Cluster.__dump(state_update): the file is opened for writing (truncated),
\* then the nodes are refreshed, then the document is written
dump(opts, ns, inst, listing, state_update) ==
    IF state_update /\ ~listing.ok
    THEN [ok |-> FALSE, nodes |-> ns, file |-> EmptyFile]
    ELSE LET ns1 == IF state_update
                    THEN update_node_states(ns, list_nodes(inst, listing.ids))
                    ELSE ns
         IN  [ok |-> TRUE, nodes |-> ns1, file |-> Document(opts, ns1)]

\* Cluster.node_types: one (group, amount) per option whose key contains 'nodes'
node_types(opts) ==
    LET ks == SelectSeq(opts, LAMBDA kv : Contains(kv[1], <<"n", "o", "d", "e", "s">>))
    IN  [i \in DOMAIN ks |->
            [node_type |-> SplitFirst(ks[i][1], <<"_">>), amount |-> ks[i][2]]]

\* an allocator that forgets the inventory: every group starts over at 1
last_index_never(ns, node_type) == [ok |-> TRUE, val |-> 0]

\* Cluster.__last_allocated_node_index: the largest int(name.split(node_type)[1])
\* over the nodes whose name contains node_type, 0 if there is none; not ok
\* when int() raises ValueError
last_allocated_node_index(ns, node_type) ==
    LET sel    == SelectSeq(ns, LAMBDA n : n.name # <<>> /\ Contains(n.name, node_type))
        parsed == [i \in DOMAIN sel |-> ParseInt(SplitSecond(sel[i].name, node_type))]
        F[k \in 0..Len(sel)] ==
            IF k = 0 THEN 0
            ELSE IF parsed[k].val > F[k - 1] THEN parsed[k].val ELSE F[k - 1]
    IN  [ok  |-> \A i \in DOMAIN parsed : parsed[i].ok,
         val |-> F[Len(sel)]]

\* Cluster.remove_by_name(name): refresh, look the node up, stop it at the
\* provider, take it off the inventory, save without a refresh.
\* result: "removed", "notfound" (logged, nothing else done) or "raised";
\* node: the id of the node that was looked up, 0 if there is none.
remove_by_name(opts, ns, inst, f, calls, name, listing, got, ok) ==
    IF ~listing.ok
    THEN [result |-> "raised", node |-> 0, nodes |-> ns, instances |-> inst,
          file |-> f, stop_calls |-> calls]
    ELSE
      LET ns1 == update_node_states(ns, list_nodes(inst, listing.ids))
          k   == FirstNamed(ns1, name)
      IN  IF k = 0
          THEN [result |-> "notfound", node |-> 0, nodes |-> ns1, instances |-> inst,
                file |-> f, stop_calls |-> calls]
          ELSE
            LET st == stop_instance(inst, calls, ns1[k], got, ok)
            IN  IF st.raised
                THEN [result |-> "raised", node |-> ns1[k].id, nodes |-> ns1,
                      instances |-> st.instances, file |-> f,
                      stop_calls |-> st.stop_calls]
                ELSE [result |-> "removed", node |-> ns1[k].id,
                      nodes |-> RemoveAt(ns1, k), instances |-> st.instances,
                      file |-> dump(opts, RemoveAt(ns1, k), st.instances, listing, FALSE).file,
                      stop_calls |-> st.stop_calls]

\* What the provider calls of one remove_by_name add to the faults, node being
\* the id it looked up (0: none).  A choice that cannot happen, or that differs
\* from another only in a call that is not made, is over any budget.
RemoveFaults(inst, listing, node, got, ok) ==
    IF node = 0
    THEN IF got = "found" /\ ok THEN ListFault(inst, listing) ELSE MaxFaults + 1
    ELSE IF got \notin GetNodeOutcomes(inst, node) \/ (got # "found" /\ ~ok)
    THEN MaxFaults + 1
    ELSE ListFault(inst, listing) + GetNodeFault(inst, node, got) + CallFault(ok)

---------------------------------------------------------------------------
(* The SSH resolver (Cluster.node_ssh_address_and_port).                   *)

\* Cluster.ssh_port
ssh_port == 22

\* the addresses a node may have, and the host keys a server may offer
Addrs == {"A", "B"}
HostKeyData == {"k1", "k2"}

\* what ssh.connect meets at an address: the connection is refused each
\* time (socket.error), the handshake fails (paramiko.SSHException), the
\* server shows its host key and then turns the login down
\* (AuthenticationException, an SSHException), or the connection is
\* refused `after` times and then accepted
Behaviours ==
    {[kind |-> "refuse", after |-> 0], [kind |-> "sshfail", after |-> 0],
     [kind |-> "authfail", after |-> 0]}
    \cup {[kind |-> "accept", after |-> r] : r \in 0..MaxRetry}

\* no call in progress
NoSsh == [pc |-> "none", ips |-> <<>>, at |-> 0, slept |-> 0, tried |-> <<>>,
          client |-> {},
          behav |-> [a \in Addrs |-> [kind |-> "refuse", after |-> 0]],
          result |-> <<>>]

\* the result (None, None)
NoAddress == <<"None", "None">>

\* ssh.connect(ip, ...) at the attempt made after `slept` refusals
connect(behav, ip, slept) ==
    IF behav[ip].kind = "sshfail" THEN "SSHException"
    ELSE IF behav[ip].kind = "authfail" THEN "AuthenticationException"
    ELSE IF behav[ip].kind = "accept" /\ slept >= behav[ip].after THEN "connected"
    ELSE "socket.error"


---------------------------------------------------------------------------
(* The commands.                                                           *)

\* the option '<group>_nodes'
NodesKey(g) == g \o <<"_", "n", "o", "d", "e", "s">>

\* the templates: a node count for each of two groups g and h
Templates(g, h) ==
    {<< <<NodesKey(g), a>>, <<NodesKey(h), b>> >> : a \in 0..MaxCount, b \in 0..1}

\* templates whose group names have nothing in common
OptionSets == Templates(<<"w">>, <<"f">>)

\* templates in which the name of one group is part of the other's
OverlapOptionSets == Templates(<<"f", "w">>, <<"w">>)

\* the groups a resize is asked for: those of the template
Groups(opts) == {SplitFirst(opts[k][1], <<"_">>) : k \in DOMAIN opts}

RECURSIVE SumAmounts(_)
SumAmounts(ts) == IF ts = <<>> THEN 0 ELSE Head(ts).amount + SumAmounts(Tail(ts))

AllRunning(ns) == \A i \in DOMAIN ns : ns[i].state = "running"

\* no command in progress
NoOp == [cmd |-> "none", pc |-> "returned", error |-> "none",
         types |-> <<>>, node_type |-> <<>>, base |-> 0, todo |-> <<>>,
         count |-> 0, wait |-> FALSE, polled |-> FALSE, cur |-> 0,
         now |-> 0, deadline |-> 0, boot |-> <<>>, storage_type |-> "yaml",
         timed_out |-> FALSE, snap |-> {}, made |-> {}, late |-> {}, up |-> {}]

\* the command has ended and its process is still there
Ended == op.cmd # "none" /\ op.pc \in {"returned", "raised"}

\* no process
Idle == op = NoOp

Raise(o, what) == [o EXCEPT !.pc = "raised", !.error = what]

\* the provider calls of the step go wrong n times
Charge(n) == faults + n <= MaxFaults /\ faults' = faults + n

\* the listing of the constructor is made only when the state file exists
ConstructFaults(f, inst, listing) ==
    IF f.status = "doc" THEN ListFault(inst, listing)
    ELSE IF listing = Exact(inst) THEN 0 ELSE MaxFaults + 1

\* a loop of add that does not move on to the next index
same_index(o) == [o EXCEPT !.pc = "create", !.polled = FALSE]

\* after the body of add's loop for one index: the next index, or the save
NextIndex(o) ==
    [o EXCEPT !.todo = Tail(o.todo),
              !.pc = IF Tail(o.todo) = <<>> THEN "adddump" ELSE "create",
              !.polled = FALSE]

\* Login.options as the rules leave them: image_sudo is a boolean,
\* image_user_sudo a non-empty string that defaults to root
LoginSets == [image_sudo : BOOLEAN, image_user_sudo : {"root", "admin"}]

\* the login of the configurations that do not vary it
Login == [image_sudo |-> TRUE, image_user_sudo |-> "root"]

\* Cluster.setup with no options, and no configure made yet
NoSetup == [options |-> <<>>, calls |-> <<>>]

\* the command line's process before it ends: --no-setup not given, no group
\* section of the configuration with a private key that is no .pem file, no
\* exit code yet (-1), no warning written
NoMain == [no_setup |-> FALSE, invalid |-> {}, exit |-> 0 - 1, warned |-> FALSE]

\* no second process
NoPeer == [op |-> NoOp, nodes |-> <<>>]

\* nothing was started yet
Fresh ==
    /\ instances = <<>>
    /\ nodes = <<>>
    /\ file = NoFile
    /\ stop_calls = {}
    /\ faults = 0
    /\ op = NoOp
    /\ known_hosts = NoHosts
    /\ ssh = NoSsh
    /\ setup = NoSetup
    /\ main = NoMain
    /\ peer = NoPeer
    /\ login = Login
    /\ storage = {}

Init == options \in OptionSets /\ Fresh

InitOverlap == options \in OverlapOptionSets /\ Fresh

\* the provider brings a pending instance up
CloudBoot ==
    \E i \in DOMAIN instances :
        /\ instances[i].state = "pending"
        /\ instances' = [instances EXCEPT ![i].state = "running"]
        /\ UNCHANGED <<options, storage, login, peer, setup, main, known_hosts, ssh, nodes, file, stop_calls, faults, op>>

\* Start.execute up to the call of cluster.start(), and start()'s first line
BeginStart ==
    /\ Idle
    /\ SumAmounts(node_types(options)) + Len(instances) <= MaxInst
    /\ \E listing \in ListOutcomes(instances) :
         LET c == construct(file, instances, listing)
             o == [NoOp EXCEPT !.cmd = "start"]
         IN  /\ Charge(ConstructFaults(file, instances, listing))
             /\ nodes' = c.nodes
             /\ op' = IF ~c.ok THEN Raise(o, "load")
                      ELSE IF Len(c.nodes) > 0 THEN [o EXCEPT !.error = "started"]
                      ELSE [o EXCEPT !.types = node_types(options),
                                     !.pc = IF node_types(options) = <<>>
                                            THEN "wait" ELSE "add"]
    /\ UNCHANGED <<options, storage, login, peer, setup, main, known_hosts, ssh, instances, file, stop_calls>>

\* ResizeCluster.execute up to the call of cluster.add(grp, n, wait=True)
BeginAdd ==
    /\ Idle
    /\ \E g \in Groups(options), count \in 1..MaxCount,
          listing \in ListOutcomes(instances) :
         LET c == construct(file, instances, listing)
             o == [NoOp EXCEPT !.cmd = "add"]
         IN  /\ count + Len(instances) <= MaxInst
             /\ Charge(ConstructFaults(file, instances, listing))
             /\ nodes' = c.nodes
             /\ op' = IF file.status = "absent" THEN [o EXCEPT !.error = "noconfig"]
                      ELSE IF ~c.ok THEN Raise(o, "load")
                      ELSE [o EXCEPT !.types = <<[node_type |-> g, amount |-> count]>>,
                                     !.wait = TRUE, !.snap = Ids(c.nodes),
                                     !.pc = "add"]
    /\ UNCHANGED <<options, storage, login, peer, setup, main, known_hosts, ssh, instances, file, stop_calls>>

\* Cluster.add up to its loop: the last allocated index and the range
AddEnter ==
    /\ op.pc = "add"
    /\ LET t  == Head(op.types)
           li == last_allocated_node_index(nodes, t.node_type)
           o  == [op EXCEPT !.node_type = t.node_type, !.base = li.val,
                            !.todo = UpTo(li.val + 1, li.val + t.amount)]
       IN  op' = IF ~li.ok THEN Raise(op, "ValueError")
                 ELSE [o EXCEPT !.pc = IF o.todo = <<>> THEN "adddump" ELSE "create"]
    /\ UNCHANGED <<options, storage, login, peer, setup, main, known_hosts, ssh, instances, nodes, file, stop_calls, faults>>

\* Cluster.add, one index: provider.start_instance and the append
Create ==
    /\ op.pc = "create"
    /\ op.node_type \notin main.invalid
    /\ Len(instances) < MaxInst
    /\ \E ok \in BOOLEAN :
         LET name == node_name(op.node_type, Head(op.todo))
             inst == start_node(instances, name)
             id   == Len(inst)
             o    == [op EXCEPT !.made = @ \cup {id}, !.cur = id]
         IN  /\ Charge(CallFault(ok))
             /\ IF ~ok
                THEN /\ op' = Raise([op EXCEPT !.todo = Tail(@)], "create")
                     /\ UNCHANGED <<instances, nodes>>
                ELSE /\ instances' = inst
                     /\ nodes' = Append(nodes, NodeOf(inst, id))
                     /\ op' = IF op.wait THEN [o EXCEPT !.pc = "addwait", !.polled = FALSE]
                              ELSE NextIndex(o)
    /\ UNCHANGED <<options, storage, login, peer, setup, main, known_hosts, ssh, file, stop_calls>>

\* Cluster.add with wait, one turn of the loop on the new node
AddPoll ==
    /\ op.pc = "addwait"
    /\ \E listing \in ListOutcomes(instances) :
         LET ns1 == update_node_states(nodes, list_nodes(instances, listing.ids))
             k   == FirstNamed(ns1, instances[op.cur].name)
         IN  /\ Charge(ListFault(instances, listing))
             /\ IF ~listing.ok
                THEN op' = Raise(op, "list") /\ UNCHANGED nodes
                ELSE /\ nodes' = ns1
                     /\ op' = IF k = 0 THEN Raise(op, "NodeNotFound")
                              ELSE IF ns1[k].state # "running" THEN [op EXCEPT !.polled = TRUE]
                              ELSE NextIndex([op EXCEPT !.up = @ \cup {op.cur}])
    /\ UNCHANGED <<options, storage, login, peer, setup, main, known_hosts, ssh, instances, file, stop_calls>>

\* Cluster.add with wait: the deadline passes while the new node is not up
AddTimeout ==
    /\ op.pc = "addwait"
    /\ op.polled
    /\ \E listing \in ListOutcomes(instances),
          got \in {"raise", "found", "missing"}, ok \in BOOLEAN :
         LET name == instances[op.cur].name
             r    == remove_by_name(options, nodes, instances, file, stop_calls,
                                    name, listing, got, ok)
         IN  IF FirstNamed(nodes, name) = 0
             THEN /\ op' = Raise(op, "NodeNotFound")
                  /\ UNCHANGED <<instances, nodes, file, stop_calls, faults>>
             ELSE /\ Charge(RemoveFaults(instances, listing, r.node, got, ok))
                  /\ nodes' = r.nodes
                  /\ instances' = r.instances
                  /\ file' = r.file
                  /\ stop_calls' = r.stop_calls
                  /\ op' = IF r.result = "raised"
                           THEN Raise(op, IF r.node = 0 THEN "list" ELSE "provider")
                           ELSE NextIndex([op EXCEPT !.late = @ \cup {op.cur}])
    /\ UNCHANGED <<options, storage, login, peer, setup, main, known_hosts, ssh>>

\* Cluster.add: the save that ends it
AddDump ==
    /\ op.pc = "adddump"
    /\ \E listing \in ListOutcomes(instances) :
         LET d == dump(options, nodes, instances, listing, TRUE)
         IN  /\ Charge(ListFault(instances, listing))
             /\ nodes' = d.nodes
             /\ file' = d.file
             /\ op' = IF ~d.ok THEN Raise(op, "list")
                      ELSE IF op.cmd = "start"
                      THEN [op EXCEPT !.types = Tail(@),
                                      !.pc = IF Tail(op.types) = <<>> THEN "wait" ELSE "add"]
                      ELSE [op EXCEPT !.pc = "returned"]
    /\ UNCHANGED <<options, storage, login, peer, setup, main, known_hosts, ssh, instances, stop_calls>>

\* Cluster.start: one turn of the wait for the steady state
StartPoll ==
    /\ op.pc = "wait"
    /\ ~AllRunning(nodes)
    /\ \E listing \in ListOutcomes(instances) :
         /\ Charge(ListFault(instances, listing))
         /\ IF ~listing.ok
            THEN op' = Raise(op, "list") /\ UNCHANGED nodes
            ELSE /\ nodes' = update_node_states(nodes, list_nodes(instances, listing.ids))
                 /\ op' = [op EXCEPT !.polled = TRUE]
    /\ UNCHANGED <<options, storage, login, peer, setup, main, known_hosts, ssh, instances, file, stop_calls>>

\* Cluster.start: every node of the inventory is running, the wait ends
StartSteady ==
    /\ op.pc = "wait"
    /\ AllRunning(nodes)
    /\ op' = [op EXCEPT !.pc = "dump"]
    /\ UNCHANGED <<options, storage, login, peer, setup, main, known_hosts, ssh, instances, nodes, file, stop_calls, faults>>

\* Cluster.start: the deadline passes during the wait
StartTimeout ==
    /\ op.pc = "wait"
    /\ op.polled
    /\ op' = [op EXCEPT !.timed_out = TRUE, !.snap = Ids(nodes),
                        !.todo = [i \in DOMAIN nodes |-> nodes[i].name],
                        !.pc = IF nodes = <<>> THEN "dump" ELSE "rollback"]
    /\ UNCHANGED <<options, storage, login, peer, setup, main, known_hosts, ssh, instances, nodes, file, stop_calls, faults>>

\* one remove_by_name of a loop over names (the rollback of start, remove, stop)
RemoveHead(after) ==
    \E listing \in ListOutcomes(instances), got \in {"raise", "found", "missing"},
       ok \in BOOLEAN :
         LET r == remove_by_name(options, nodes, instances, file, stop_calls,
                                 Head(op.todo), listing, got, ok)
         IN  /\ Charge(RemoveFaults(instances, listing, r.node, got, ok))
             /\ nodes' = r.nodes
             /\ instances' = r.instances
             /\ file' = r.file
             /\ stop_calls' = r.stop_calls
             /\ op' = IF r.result = "raised"
                      THEN Raise(op, IF r.node = 0 THEN "list" ELSE "provider")
                      ELSE [op EXCEPT !.todo = Tail(@),
                                      !.pc = IF Tail(op.todo) = <<>> THEN after ELSE @]

\* Cluster.start: the rollback after the deadline, one node
StartRollback ==
    /\ op.pc = "rollback"
    /\ RemoveHead("dump")
    /\ UNCHANGED <<options, storage, login, peer, setup, main, known_hosts, ssh>>

\* Cluster.start: the save that ends it
StartDump ==
    /\ op.pc = "dump"
    /\ \E listing \in ListOutcomes(instances) :
         LET d == dump(options, nodes, instances, listing, TRUE)
         IN  /\ Charge(ListFault(instances, listing))
             /\ nodes' = d.nodes
             /\ file' = d.file
             /\ op' = IF ~d.ok THEN Raise(op, "list") ELSE [op EXCEPT !.pc = "returned"]
    /\ UNCHANGED <<options, storage, login, peer, setup, main, known_hosts, ssh, instances, stop_calls>>

\* ResizeCluster.execute up to cluster.remove(grp, n), and remove()'s range
BeginRemove ==
    /\ Idle
    /\ \E g \in Groups(options), count \in 1..MaxCount,
          listing \in ListOutcomes(instances) :
         LET c  == construct(file, instances, listing)
             li == last_allocated_node_index(c.nodes, g)
             o  == [NoOp EXCEPT !.cmd = "remove", !.node_type = g, !.base = li.val,
                                !.count = count, !.snap = Ids(c.nodes)]
         IN  /\ Charge(ConstructFaults(file, instances, listing))
             /\ nodes' = c.nodes
             /\ op' = IF file.status = "absent" THEN [o EXCEPT !.error = "noconfig"]
                      ELSE IF ~c.ok THEN Raise(o, "load")
                      ELSE IF ~li.ok THEN Raise(o, "ValueError")
                      ELSE [o EXCEPT !.pc = "removing",
                                     !.todo = [i \in 1..count |->
                                                  node_name(g, DownTo(li.val, li.val - count)[i])]]
    /\ UNCHANGED <<options, storage, login, peer, setup, main, known_hosts, ssh, instances, file, stop_calls>>

\* RemoveNode.execute up to cluster.remove_by_name(node)
BeginRemoveNode ==
    /\ Idle
    /\ \E name \in {instances[i].name : i \in DOMAIN instances}
                   \cup {node_name(<<"w">>, MaxInst + 1)},
          listing \in ListOutcomes(instances) :
         LET c == construct(file, instances, listing)
             o == [NoOp EXCEPT !.cmd = "remove_by_name", !.snap = Ids(c.nodes)]
         IN  /\ Charge(ConstructFaults(file, instances, listing))
             /\ nodes' = c.nodes
             /\ op' = IF file.status = "absent" THEN [o EXCEPT !.error = "noconfig"]
                      ELSE IF ~c.ok THEN Raise(o, "load")
                      ELSE [o EXCEPT !.pc = "removing", !.todo = <<name>>]
    /\ UNCHANGED <<options, storage, login, peer, setup, main, known_hosts, ssh, instances, file, stop_calls>>

\* Cluster.remove / RemoveNode: one remove_by_name
RemoveStep ==
    /\ op.pc = "removing"
    /\ RemoveHead("returned")
    /\ UNCHANGED <<options, storage, login, peer, setup, main, known_hosts, ssh>>

\* Stop.execute up to cluster.stop(), and stop()'s reload of the state file
BeginStop ==
    /\ Idle
    /\ \E listing \in ListOutcomes(instances) :
         LET c == construct(file, instances, listing)
             o == [NoOp EXCEPT !.cmd = "stop"]
         IN  /\ Charge(ConstructFaults(file, instances, listing))
             /\ nodes' = IF c.ok THEN load(file).nodes ELSE c.nodes
             /\ op' = IF file.status = "absent" THEN [o EXCEPT !.error = "noconfig"]
                      ELSE IF ~c.ok THEN Raise(o, "load")
                      ELSE [o EXCEPT !.todo = [i \in DOMAIN file.nodes |-> file.nodes[i].name],
                                     !.snap = Ids(file.nodes),
                                     !.pc = IF file.nodes = <<>> THEN "unlink" ELSE "stopping"]
    /\ UNCHANGED <<options, storage, login, peer, setup, main, known_hosts, ssh, instances, file, stop_calls>>

\* Cluster.stop: one remove_by_name
StopStep ==
    /\ op.pc = "stopping"
    /\ RemoveHead("unlink")
    /\ UNCHANGED <<options, storage, login, peer, setup, main, known_hosts, ssh>>

\* Cluster.stop: the cluster's files are deleted
StopUnlink ==
    /\ op.pc = "unlink"
    /\ file' = NoFile
    /\ known_hosts' = NoHosts
    /\ storage' = storage \ glob(file_root(ClusterName) \o <<".", "*">>, storage)
    /\ op' = [op EXCEPT !.pc = "returned"]
    /\ UNCHANGED <<options, login, peer, setup, main, ssh, instances, nodes, stop_calls, faults>>

\* the process of the command exits: its memory is gone
Exit ==
    /\ Ended
    /\ op' = NoOp
    /\ nodes' = <<>>
    /\ ssh' = NoSsh
    /\ setup' = [setup EXCEPT !.calls = <<>>]
    /\ main' = [main EXCEPT !.exit = NoMain.exit, !.warned = FALSE]
    /\ UNCHANGED <<options, storage, login, peer, known_hosts, instances, file, stop_calls, faults>>

\* SshFrontend.execute up to the call of node_ssh_address_and_port: the
\* cluster is constructed, the node is the one named with -n
BeginSsh ==
    /\ Idle
    /\ \E name \in {instances[i].name : i \in DOMAIN instances},
          listing \in ListOutcomes(instances),
          private \in {<<>>, <<"A">>}, public \in {<<>>, <<"B">>},
          behav \in [Addrs -> Behaviours] :
         LET c == construct(file, instances, listing)
             o == [NoOp EXCEPT !.cmd = "ssh"]
             found == name \in Names(c.nodes)
         IN  /\ Charge(ConstructFaults(file, instances, listing))
             /\ \A a \in Addrs : (~found \/ \A i \in DOMAIN (private \o public) :
                                     (private \o public)[i] # a)
                                 => behav[a] = NoSsh.behav[a]
             /\ nodes' = c.nodes
             /\ op' = IF file.status = "absent" THEN [o EXCEPT !.error = "noconfig"]
                      ELSE IF ~c.ok THEN Raise(o, "load")
                      ELSE IF ~found THEN Raise(o, "attribute")
                      ELSE [o EXCEPT !.pc = "resolving"]
             /\ ssh' = IF file.status = "doc" /\ c.ok /\ found
                       THEN [NoSsh EXCEPT !.pc = "next", !.ips = private \o public,
                                          !.behav = behav]
                       ELSE NoSsh
    /\ UNCHANGED <<options, storage, login, peer, setup, main, instances, file, stop_calls, known_hosts>>

\* node_ssh_address_and_port: the loop over the addresses takes the next
\* one and arms the timer, or ends with (None, None)
SshNextAddress ==
    /\ op.pc = "resolving"
    /\ ssh.pc = "next"
    /\ IF ssh.at = Len(ssh.ips)
       THEN /\ ssh' = [ssh EXCEPT !.pc = "done", !.result = NoAddress]
            /\ op' = [op EXCEPT !.pc = "returned"]
       ELSE /\ ssh' = [ssh EXCEPT !.pc = "connect", !.at = @ + 1, !.slept = 0]
            /\ UNCHANGED op
    /\ UNCHANGED <<options, storage, login, peer, setup, main, instances, nodes, file, stop_calls, faults, known_hosts>>

\* node_ssh_address_and_port: one ssh.connect at the current address.
\* Connected: the host key is merged into the known-hosts file, which is
\* created when it is not there, and (ip, port) is returned.
\* socket.error: sleep the polling interval and connect again, unless the
\* timer goes off first, whose TimeoutError no handler catches.
\* SSHException: the address is given up.
SshConnect ==
    /\ op.pc = "resolving"
    /\ ssh.pc = "connect"
    /\ LET ip == ssh.ips[ssh.at]
           got == connect(ssh.behav, ip, ssh.slept)
           s == [ssh EXCEPT !.tried = Append(@, ip)]
       IN  \/ /\ got = "connected"
              /\ \E key \in HostKeyData :
                   LET client == AddHostKey(ssh.client, ip, key)
                   IN  /\ known_hosts' = SaveHostKeys(known_hosts, client)
                       /\ ssh' = [s EXCEPT !.pc = "done", !.client = client,
                                           !.result = <<ip, ssh_port>>]
              /\ op' = [op EXCEPT !.pc = "returned"]
           \/ /\ got = "AuthenticationException"
              /\ \E key \in HostKeyData :
                   ssh' = [s EXCEPT !.pc = "next",
                                    !.client = AddHostKey(ssh.client, ip, key)]
              /\ UNCHANGED <<op, known_hosts>>
           \/ /\ got = "socket.error"
              /\ ssh.slept + 1 < Deadline
              /\ ssh' = [s EXCEPT !.slept = @ + 1]
              /\ UNCHANGED <<op, known_hosts>>
           \/ /\ got = "socket.error"
              /\ ssh.slept + 1 >= Deadline
              /\ ssh' = [s EXCEPT !.pc = "done"]
              /\ op' = Raise(op, "timeout")
              /\ UNCHANGED known_hosts
           \/ /\ got = "SSHException"
              /\ ssh' = [s EXCEPT !.pc = "next"]
              /\ UNCHANGED <<op, known_hosts>>
    /\ UNCHANGED <<options, storage, login, peer, setup, main, instances, nodes, file, stop_calls, faults>>

Next ==
    \/ CloudBoot
    \/ BeginStart
    \/ BeginAdd
    \/ AddEnter
    \/ Create
    \/ AddPoll
    \/ AddTimeout
    \/ AddDump
    \/ StartPoll
    \/ StartSteady
    \/ StartTimeout
    \/ StartRollback
    \/ StartDump
    \/ BeginRemove
    \/ BeginRemoveNode
    \/ RemoveStep
    \/ BeginStop
    \/ StopStep
    \/ StopUnlink
    \/ Exit

Spec == Init /\ [][Next]_vars

\* the same commands on a template whose group names overlap
SpecOverlap == InitOverlap /\ [][Next]_vars

\* start() of a cluster of two nodes at the moment its wait for the steady
\* state begins: the nodes were created and saved and are pending, the
\* timer is armed.  Time is counted in polling intervals from here; the
\* provider reports instance i as running from the time boot[i] on.
InitWait ==
    /\ options \in {t \in OptionSets : t[1][2] = 2 /\ t[2][2] = 0}
    /\ instances = [i \in 1..2 |-> [name |-> node_name(<<"w">>, i), state |-> "pending"]]
    /\ nodes = <<NodeOf(instances, 1), NodeOf(instances, 2)>>
    /\ file = Document(options, nodes)
    /\ stop_calls = {}
    /\ faults = 0
    /\ \E d \in 1..MaxWaitDeadline, b \in [1..2 -> 0..MaxBoot] :
         op = [NoOp EXCEPT !.cmd = "start", !.pc = "timedwait", !.polled = TRUE,
                           !.deadline = d, !.boot = b]
    /\ known_hosts = NoHosts
    /\ ssh = NoSsh
    /\ setup = NoSetup
    /\ main = NoMain
    /\ peer = NoPeer
    /\ login = Login
    /\ storage = {}

\* the instances as the provider has them at time t
InstancesAt(inst, boot, t) ==
    [i \in DOMAIN inst |->
        IF inst[i].state = "pending" /\ t >= boot[i]
        THEN [inst[i] EXCEPT !.state = "running"] ELSE inst[i]]

\* Cluster.start: except TimeoutError, at time t
TimedOut(t) ==
    [op EXCEPT !.now = t, !.timed_out = TRUE, !.snap = Ids(nodes),
               !.todo = [i \in DOMAIN nodes |-> nodes[i].name],
               !.pc = IF nodes = <<>> THEN "dump" ELSE "rollback"]

\* Cluster.start: the head of the wait loop and the refresh.  The loop ends
\* when the inventory, as the last refresh left it, is all running.
TimedPoll ==
    /\ op.pc = "timedwait"
    /\ instances' = InstancesAt(instances, op.boot, op.now)
    /\ IF AllRunning(nodes)
       THEN op' = [op EXCEPT !.pc = "dump"] /\ UNCHANGED nodes
       ELSE IF op.now >= op.deadline
       THEN op' = TimedOut(op.deadline) /\ UNCHANGED nodes
       ELSE /\ nodes' = update_node_states(nodes,
                             list_nodes(instances', Exact(instances').ids))
            /\ op' = [op EXCEPT !.pc = "timedsleep"]
    /\ UNCHANGED <<options, storage, login, peer, setup, main, file, stop_calls, faults, known_hosts, ssh>>

\* Cluster.start: time.sleep(polling_interval) after the refresh, whatever
\* the refresh found.  The alarm of the timer ends the sleep when the
\* deadline comes first; when both fall together either may win.
TimedSleep ==
    /\ op.pc = "timedsleep"
    /\ \/ /\ op.now + 1 <= op.deadline
          /\ op' = [op EXCEPT !.now = @ + 1, !.pc = "timedwait"]
       \/ /\ op.now + 1 >= op.deadline
          /\ op' = TimedOut(op.deadline)
    /\ UNCHANGED <<options, storage, login, peer, setup, main, instances, nodes, file, stop_calls, faults,
                   known_hosts, ssh>>

\* start() from its wait on, with the clock
NextWait ==
    \/ TimedPoll
    \/ TimedSleep
    \/ StartRollback
    \/ StartDump
    \/ Exit

SpecWait == InitWait /\ [][NextWait]_vars

---------------------------------------------------------------------------
(* The state file in its three storage types and its two shapes.           *)

StorageTypes == {"yaml", "json", "pickle"}

\* the dictionary __dump writes for a node
node_record(n) ==
    [id |-> n.id, name |-> n.name, state |-> n.state, size |-> n.size,
     created_at |-> n.created_at]

\* the Node __load builds from such a dictionary.  The values are passed by
\* position, size sixth and created_at seventh; the sixth parameter of
\* libcloud's Node is the driver and the seventh the size, and created_at,
\* the last one, is not given.
load_node(rec) ==
    [id |-> rec.id, name |-> rec.name, state |-> rec.state,
     size |-> rec.created_at, created_at |-> "None"]

\* the Node __load builds from an entry of the group-keyed shape
legacy_node(active) ==
    [id |-> active.instance_id,
     name |-> active.cluster_name \o <<"-">> \o active.name,
     state |-> "None", size |-> "None", created_at |-> "None"]

\* __load, the entries of one group: a name the inventory has is left out
RECURSIVE load_group(_, _)
load_group(acc, actives) ==
    IF actives = <<>> THEN acc
    ELSE load_group(IF legacy_node(Head(actives)).name \in Names(acc) THEN acc
                    ELSE Append(acc, legacy_node(Head(actives))),
                    Tail(actives))

\* __load, the loop over data['nodes']: a node dictionary is appended; a
\* key of the group-keyed shape has no get(), and its entries are merged
RECURSIVE load_nodes(_, _)
load_nodes(acc, items) ==
    IF items = <<>> THEN acc
    ELSE load_nodes(IF "id" \in DOMAIN Head(items)
                    THEN Append(acc, load_node(Head(items)))
                    ELSE load_group(acc, Head(items).active),
                    Tail(items))

\* __load(False) of a file of the given storage type.  json.loads(sf) and
\* pickle.loads(sf) are given the file object and raise TypeError; an empty
\* yaml file loads as None, which has no get().
storage_load(type, f) ==
    IF type = "yaml" /\ f.status = "doc"
    THEN [raised |-> FALSE, nodes |-> load_nodes(<<>>, f.nodes)]
    ELSE [raised |-> TRUE, nodes |-> <<>>]

\* __dump(False) in the given storage type: the file is opened for writing
\* and so emptied; yaml.dump writes the document; json.dumps(buffer, sf)
\* and pickle.dumps(buffer, sf) write nothing, and raise or not with the
\* interpreter (py3: both raise TypeError; py2: json.dumps returns).
storage_dump(type, opts, ns, py3) ==
    IF type = "yaml"
    THEN [raised |-> FALSE,
          file |-> Document(opts, [i \in DOMAIN ns |-> node_record(ns[i])])]
    ELSE [raised |-> type = "pickle" \/ py3, file |-> EmptyFile]

\* the nodes a provider hands over, with the fields the state file keeps
StoreNodes ==
    {[id |-> i, name |-> node_name(<<"w">>, x), state |-> "running",
      size |-> sz, created_at |-> t] :
        i \in 1..2, x \in 1..2, sz \in {"None", "small"}, t \in {"None", "t1"}}

\* the inventories to save: up to two nodes of distinct ids
StoreInventories ==
    {<<>>} \cup {<<n>> : n \in StoreNodes}
    \cup {<<n, m>> : n \in {k \in StoreNodes : k.id = 1},
                     m \in {k \in StoreNodes : k.id = 2}}

\* the entries of the group-keyed shape
LegacyEntries ==
    {[cluster_name |-> ClusterName, name |-> <<"w">> \o Format03(x), instance_id |-> i] :
        x \in 1..2, i \in 1..2}

\* the documents of the group-keyed shape: a group of up to two entries
LegacyDocuments ==
    {Document(<<>>, <<[group |-> <<"w">>, active |-> a]>>) :
        a \in {<<>>} \cup {<<e>> : e \in LegacyEntries}
              \cup {<<e, d>> : e \in LegacyEntries, d \in LegacyEntries}}

\* a Cluster object with an inventory and a storage type, and in the
\* storage directory no file, or a file of the group-keyed shape
InitStore ==
    /\ options \in {t \in OptionSets : t[1][2] = 2 /\ t[2][2] = 0}
    /\ instances = <<>>
    /\ nodes \in StoreInventories
    /\ file \in {NoFile} \cup LegacyDocuments
    /\ file # NoFile => nodes = <<>>
    /\ stop_calls = {}
    /\ faults = 0
    /\ \E t \in StorageTypes :
         op = [NoOp EXCEPT !.cmd = "store", !.pc = "ready", !.storage_type = t]
    /\ known_hosts = NoHosts
    /\ ssh = NoSsh
    /\ setup = NoSetup
    /\ main = NoMain
    /\ peer = NoPeer
    /\ login = Login
    /\ storage = {}

\* Cluster.__dump(False)
StoreSave ==
    /\ op.cmd = "store"
    /\ op.pc \in {"ready", "loaded"}
    /\ \E py3 \in BOOLEAN :
         LET d == storage_dump(op.storage_type, options, nodes, py3)
         IN  /\ file' = d.file
             /\ op' = IF d.raised THEN Raise(op, "TypeError")
                      ELSE [op EXCEPT !.pc = "saved"]
    /\ UNCHANGED <<options, storage, login, peer, setup, main, instances, nodes, stop_calls, faults, known_hosts, ssh>>

\* Cluster.__load(False)
StoreLoad ==
    /\ op.cmd = "store"
    /\ op.pc \in {"ready", "saved"}
    /\ file.status # "absent"
    /\ LET l == storage_load(op.storage_type, file)
       IN  /\ nodes' = IF l.raised THEN nodes ELSE l.nodes
           /\ op' = IF l.raised THEN Raise(op, "TypeError")
                    ELSE [op EXCEPT !.pc = "loaded"]
    /\ UNCHANGED <<options, storage, login, peer, setup, main, instances, file, stop_calls, faults, known_hosts, ssh>>

NextStore ==
    \/ StoreSave
    \/ StoreLoad

SpecStore == InitStore /\ [][NextStore]_vars

\* A cluster whose group w lost its middle node: start() made c-w001 and
\* c-w002, add('w', 1) made c-w003, remove_by_name took c-w002; all of it
\* is saved and the two nodes are running.
InitGap ==
    /\ options \in {t \in OptionSets : t[1][2] = 2 /\ t[2][2] = 0}
    /\ instances = [i \in 1..3 |->
                      [name |-> node_name(<<"w">>, i),
                       state |-> IF i = 2 THEN "terminated" ELSE "running"]]
    /\ nodes = <<>>
    /\ file = Document(options, <<NodeOf(instances, 1), NodeOf(instances, 3)>>)
    /\ stop_calls = {2}
    /\ faults = 0
    /\ op = NoOp
    /\ known_hosts = NoHosts
    /\ ssh = NoSsh
    /\ setup = NoSetup
    /\ main = NoMain
    /\ peer = NoPeer
    /\ login = Login
    /\ storage = {}

\* the commands that take nodes away
NextGap ==
    \/ BeginRemove
    \/ BeginRemoveNode
    \/ RemoveStep
    \/ BeginStop
    \/ StopStep
    \/ StopUnlink
    \/ Exit

SpecGap == InitGap /\ [][NextGap]_vars

\* the commands, ssh among them
NextSsh ==
    \/ Next
    \/ BeginSsh
    \/ SshNextAddress
    \/ SshConnect

SpecSsh == Init /\ [][NextSsh]_vars

---------------------------------------------------------------------------
(* What the properties below speak of.                                     *)

\* start() was called by the command in progress and has returned
StartReturned == op.cmd = "start" /\ op.pc = "returned" /\ op.error = "none"

\* add() was called by a resize and has returned
AddReturned == op.cmd = "add" /\ op.pc = "returned" /\ op.error = "none"

\* the names the template asks for: index 1 .. amount of every group
Requested(opts) ==
    UNION {{node_name(SplitFirst(opts[k][1], <<"_">>), x) : x \in 1..opts[k][2]} :
              k \in DOMAIN opts}

\* the instances the controller created and never asked the provider to stop
Unreleased == {i \in DOMAIN instances : i \notin stop_calls}

\* the step creates an instance
Issues == Len(instances') = Len(instances) + 1

\* the name the step issues
Issued == instances'[Len(instances')].name

\* the indices x for which the inventory holds the node  <cluster>-<group>x
GroupIndices(ns, g) == {x \in 1..(MaxInst + 1) : node_name(g, x) \in Names(ns)}

MaxOf(S) == IF S = {} THEN 0 ELSE CHOOSE m \in S : \A x \in S : x <= m

---------------------------------------------------------------------------
(* C1.  If the wait of start() for the steady state times out, the         *)
(* provider's stop is invoked for every node that is in the inventory at   *)
(* that moment, and when start() returns the inventory and the state file  *)
(* both hold zero nodes.                                                   *)
(* The rollback refreshes the inventory before each removal; a node the    *)
(* listing leaves out is dropped and its removal does nothing.             *)

C1_TimeoutStopsEveryNode ==
    (StartReturned /\ op.timed_out) =>
        /\ op.snap \subseteq stop_calls
        /\ nodes = <<>>
        /\ file.status = "doc" /\ file.nodes = <<>>

---------------------------------------------------------------------------
(* C2.  When start() returns, the inventory is empty or holds every node   *)
(* the template asks for, each of them running: never a non-empty strict   *)
(* subset, whatever the listings answered during the wait.                 *)

C2_StartAllOrNothing ==
    StartReturned =>
        \/ nodes = <<>>
        \/ /\ Names(nodes) = Requested(options)
           /\ Len(nodes) = Cardinality(Requested(options))
           /\ AllRunning(nodes)

---------------------------------------------------------------------------
(* C3.  After any sequence of start, add, remove and remove_by_name, a     *)
(* call that ends in a provider error included, every instance the         *)
(* controller created and on which it has not invoked the provider's stop  *)
(* is in the node list of the state file.                                  *)

C3_NoInstanceLost ==
    (Ended /\ op.cmd \in {"start", "add", "remove", "remove_by_name"}
           /\ op.error # "started") =>
        \A i \in Unreleased : file.status = "doc" /\ i \in Ids(file.nodes)

---------------------------------------------------------------------------
(* C4.  As stated: over any sequence of add, remove and remove_by_name no  *)
(* node name is issued twice; an index freed by a removal is never given   *)
(* to a later node of the group.                                           *)

---------------------------------------------------------------------------
(* The two halves of C5, on one step of add.                               *)

\* add's first lines leave the range max+1 .. max+count to be issued
C5_RangeOnEntry ==
    (op.pc = "add" /\ op'.pc # "add") =>
        LET t == Head(op.types)
            m == MaxOf(GroupIndices(nodes, t.node_type))
        IN  /\ op'.pc \in {"create", "adddump"}
            /\ op'.todo = [k \in 1..t.amount |-> m + k]

\* every name issued is the one of the first index left in the range, and
\* the range only ever loses its first index
C5_IssuesInOrder ==
    /\ Issues => /\ op.pc = "create"
                 /\ Issued = node_name(op.node_type, Head(op.todo))
    /\ (op.pc \in {"create", "addwait"} /\ op'.todo # op.todo) =>
           op'.todo = Tail(op.todo)

(* C5.  The index given to the next node added to a group is 1 + the       *)
(* largest index among the nodes the inventory holds of that group, 1 if   *)
(* it holds none; add(group, count) issues the consecutive indices         *)
(* max+1 .. max+count.                                                     *)
(* It holds for groups whose names have nothing in common (Spec); where    *)
(* one group's name is part of another's (SpecOverlap) the allocator       *)
(* counts the other group's nodes too.                                     *)

C5_NextIndexIsMaxPlusOne == [][C5_RangeOnEntry /\ C5_IssuesInOrder]_vars

---------------------------------------------------------------------------
(* C6.  After a refresh of the node states, every node of the inventory    *)
(* has a name that was in the inventory before the refresh and is a node   *)
(* the provider reports; a refresh never brings in a name that was not in  *)
(* the inventory.                                                          *)

\* the steps that change the inventory by a refresh (and, in a removal,
\* by taking one node off)
Refreshes ==
    /\ op.pc \in {"addwait", "adddump", "wait", "rollback", "dump",
                  "removing", "stopping"}
    /\ nodes' # nodes

C6_RefreshKeepsToInventory ==
    [][Refreshes =>
          \A k \in DOMAIN nodes' :
              /\ nodes'[k].name \in Names(nodes)
              /\ \E i \in DOMAIN instances : nodes'[k] = NodeOf(instances, i)
      ]_vars

\* the wait of start has refreshed an inventory while the provider held a
\* live instance whose name is not in it
C6_ForeignInstanceLeftOut ==
    /\ op.pc = "wait" /\ op.polled
    /\ nodes # <<>>
    /\ \E i \in DOMAIN instances :
          /\ instances[i].state # "terminated"
          /\ instances[i].name \notin Names(nodes)

---------------------------------------------------------------------------
(* C7.  A node of the persisted inventory that the provider's listing    *)
(* does not report is only flagged, never dropped: it is still in the      *)
(* inventory after the refresh and still in the state file after the next  *)
(* save.                                                                   *)
(* Stated on the steps that do nothing to the inventory but refresh it (a  *)
(* turn of start's wait, the saves that end add and start) and that do not *)
(* end in an error: a node that is in the inventory and in the file stays  *)
(* in the inventory, and a save loses no node of the file.                 *)

C7_RefreshDropsNoNode ==
    [][(op.pc \in {"wait", "adddump", "dump"} /\ op'.pc # "raised") =>
          /\ (Names(nodes) \cap Names(file.nodes)) \subseteq Names(nodes')
          /\ file' # file => Names(file.nodes) \subseteq Names(file'.nodes)
      ]_vars

---------------------------------------------------------------------------
(* C8.  In add(group, count, wait=True), a new node that is not running    *)
(* when the deadline passes has the provider's stop invoked on it and is   *)
(* neither in the inventory nor in the state file when add returns; the    *)
(* nodes of the same call that did come up are in the inventory.           *)

C8_LateNodeStoppedAndExcluded ==
    AddReturned =>
        /\ \A i \in op.late :
              /\ i \in stop_calls
              /\ i \notin Ids(nodes)
              /\ i \notin Ids(file.nodes)
        /\ \A i \in op.up : i \in Ids(nodes)

---------------------------------------------------------------------------
(* C9.  If the provider's create call fails for one index during           *)
(* add(group, count), the error is logged and add goes on: it issues the   *)
(* create for every index that is left, and the nodes it did create are    *)
(* in the state file when it ends.                                         *)
(* op.todo holds the indices add has not tried; op.made the instances it   *)
(* created.                                                                *)

C9_CreateFailureDoesNotAbortAdd ==
    (op.cmd \in {"add", "start"} /\ op.error = "create" /\ Ended) =>
        /\ op.todo = <<>>
        /\ \A i \in op.made :
              file.status = "doc" /\ i \in Ids(file.nodes)

---------------------------------------------------------------------------
(* C10.  If the provider's stop call fails for one node during stop(), the *)
(* error is caught and logged for that node, and stop() still invokes      *)
(* remove_by_name for every other node of the state file.                  *)
(* op.todo holds the names remove_by_name has not returned for: the one    *)
(* that failed, then those stop() has not come to.                         *)

C10_StopFailureDoesNotAbortStop ==
    (op.cmd = "stop" /\ op.error = "provider" /\ Ended) => Len(op.todo) <= 1

---------------------------------------------------------------------------
\* stop() has returned
StopReturned == op.cmd = "stop" /\ op.pc = "returned" /\ op.error = "none"

\* a file of the cluster is deleted in the step
Unlinks ==
    \/ file.status # "absent" /\ file'.status = "absent"
    \/ known_hosts.status # "absent" /\ known_hosts'.status = "absent"

(* C11.  When stop() has returned the inventory is empty and neither the   *)
(* state file nor the known-hosts file exists; no file is deleted before   *)
(* remove_by_name was invoked for every node of the reloaded state.        *)
(* remove_by_name takes the first node of that name out of the refreshed   *)
(* inventory; when the listing holds two instances of one name the other   *)
(* stays in the inventory, and stop() deletes the files all the same.      *)

C11_StopLeavesNothing ==
    /\ [](StopReturned => /\ nodes = <<>>
                          /\ file.status = "absent"
                          /\ known_hosts.status = "absent")
    /\ [][(op.cmd = "stop" /\ Unlinks) => op.pc = "unlink" /\ op.todo = <<>>]_vars

---------------------------------------------------------------------------
\* remove(group, count) has returned
RemoveReturned == op.cmd = "remove" /\ op.pc = "returned" /\ op.error = "none"

\* the indices group g had in the inventory the command started from
EntryIndices(g) ==
    {x \in 1..(MaxInst + 1) : \E i \in op.snap : instances[i].name = node_name(g, x)}

\* the nodes of the other groups in the inventory the command started from
EntryOthers(g) ==
    {i \in op.snap : \A x \in 1..(MaxInst + 1) : instances[i].name # node_name(g, x)}

(* C12.  For a group that holds exactly the indices 1..n, remove(group, k) *)
(* with k <= n leaves exactly the indices 1..n-k in the group and leaves   *)
(* the nodes of every other group in the inventory.                        *)

C12_RemoveTakesHighest ==
    (RemoveReturned /\ EntryIndices(op.node_type) = 1..op.base /\ op.count <= op.base)
    => /\ GroupIndices(nodes, op.node_type) = 1..(op.base - op.count)
       /\ EntryOthers(op.node_type) \subseteq Ids(nodes)

---------------------------------------------------------------------------
\* the nodes group g had in the inventory the command started from
EntryGroup(g) == op.snap \ EntryOthers(g)

\* the n highest of a set of indices
Highest(E, n) == {x \in E : Cardinality({y \in E : y > x}) < n}

(* C13.  For a group that holds at least count nodes, whatever their       *)
(* indices, remove(group, count) removes exactly count nodes, those of     *)
(* the count highest indices.                                              *)
(* remove() goes down from the highest index by one, count times; an index *)
(* that no node has is logged as not found and counts as a removal.        *)

C13_RemoveOverGap ==
    (RemoveReturned /\ Cardinality(EntryGroup(op.node_type)) >= op.count)
    => /\ Cardinality(EntryGroup(op.node_type) \ Ids(nodes)) = op.count
       /\ GroupIndices(nodes, op.node_type)
            = EntryIndices(op.node_type)
                \ Highest(EntryIndices(op.node_type), op.count)

---------------------------------------------------------------------------
\* remove_by_name runs for a name no node of the inventory has
MissingName ==
    /\ op.cmd = "remove_by_name"
    /\ op.pc = "removing"
    /\ Head(op.todo) \notin Names(nodes)
    /\ op' # op

(* C14.  As stated: remove_by_name for a name that is not in the inventory *)
(* raises no error, invokes no provider stop and does not write the state  *)
(* file.                                                                   *)

---------------------------------------------------------------------------
\* the timed wait of start() is over
WaitOver == op.cmd = "start" /\ op.boot # <<>> /\ op.pc \notin {"timedwait", "timedsleep"}

\* one node runs after 2 polling intervals, the other after 5
TwoAndFive == op.boot \in {<<2, 5>>, <<5, 2>>}

(* C15.  With two nodes of which one is reported running after 2 polling   *)
(* intervals and the other after 5, the wait for the steady state succeeds *)
(* and ends before the deadline for every deadline of at least 5           *)
(* intervals, and raises the timeout for every shorter deadline.           *)
(* The loop sleeps one interval after every refresh, also after the one    *)
(* that found every node running, and only then tests its condition: it    *)
(* ends at 6 intervals, and a deadline of 5 goes off during that sleep.    *)

C15_WaitMeetsDeadline ==
    (WaitOver /\ TwoAndFive)
    => IF op.deadline >= 5
       THEN ~op.timed_out /\ op.now < op.deadline
       ELSE op.timed_out

---------------------------------------------------------------------------
\* the step is a save, or the load that follows a save
Saves == op.cmd = "store" /\ op.pc \in {"ready", "loaded"} /\ file' # file
LoadsSaved == op.cmd = "store" /\ op.pc = "saved" /\ op' # op

(* C16.  For each storage type (yaml, json, pickle) a save followed by a   *)
(* load without refresh gives back the same inventory, every field of      *)
(* every node, and the same options.                                       *)
(* Nothing is written for json and pickle, and both loads raise; with yaml *)
(* the size of a loaded node is what was saved as its created_at.          *)

C16_SaveLoadRoundTrip ==
    [][/\ Saves => op'.pc = "saved"
       /\ LoadsSaved => op'.pc = "loaded" /\ nodes' = nodes /\ options' = options]_vars

---------------------------------------------------------------------------
\* the step is a load of a yaml document
Loads ==
    /\ op.cmd = "store"
    /\ op.storage_type = "yaml"
    /\ op.pc \in {"ready", "saved"}
    /\ op'.pc = "loaded"

\* an inventory as a set of (id, name)
Pairs(ns) == {<<ns[k].id, ns[k].name>> : k \in DOMAIN ns}

\* the entries of a group-keyed document, one group after the other
RECURSIVE Entries(_)
Entries(items) ==
    IF items = <<>> THEN <<>> ELSE Head(items).active \o Entries(Tail(items))

\* the document of node dictionaries that describes the nodes of a
\* group-keyed document
ModernOf(f) ==
    [f EXCEPT !.nodes = [k \in DOMAIN Entries(f.nodes) |->
                            node_record(legacy_node(Entries(f.nodes)[k]))]]

\* the file holds the group-keyed shape
IsLegacy == file.status = "doc" /\ \A k \in DOMAIN file.nodes : "id" \notin DOMAIN file.nodes[k]

(* C17.  Loading a document of the group-keyed shape (cluster_name, name,  *)
(* instance_id) gives the same inventory, as a set of (id, name), as       *)
(* loading the document of node dictionaries that describes the same       *)
(* nodes.                                                                  *)
(* Only the group-keyed branch leaves out a node whose name the inventory  *)
(* already has: two nodes of one name load as one there and as two from    *)
(* the node dictionaries.                                                  *)

C17_LegacyLoadsAsModern ==
    [][(Loads /\ IsLegacy)
       => Pairs(nodes') = Pairs(storage_load("yaml", ModernOf(file)).nodes)]_vars

(* C18.  Loading merges by name and is idempotent: a name the document     *)
(* lists more than once, in either shape, is once in the loaded inventory, *)
(* and loading again changes nothing.                                      *)
(* The node dictionaries are appended as they come, with no look at the    *)
(* names.                                                                  *)

C18_LoadMergesByName ==
    [][Loads => /\ Cardinality(Names(nodes')) = Len(nodes')
                /\ storage_load(op.storage_type, file').nodes = nodes']_vars

---------------------------------------------------------------------------
\* the call of node_ssh_address_and_port is over
SshOver == op.cmd = "ssh" /\ ssh.pc = "done"

\* the addresses are [A, B]; A refuses every connection, B refuses one
\* and accepts the next
RefusedThenRetried ==
    /\ ssh.ips = <<"A", "B">>
    /\ ssh.behav["A"].kind = "refuse"
    /\ ssh.behav["B"] = [kind |-> "accept", after |-> 1]

(* C19.  With the addresses [A, B], every connection to A refused and B    *)
(* accepting after one retry, node_ssh_address_and_port returns (B, port)  *)
(* and the host key of B is in the known-hosts file.                       *)
(* A refused connection is tried again at the same address until the timer *)
(* goes off, and the timer's error leaves the call: B is never tried.      *)

C19_RefusedAddressIsPassed ==
    (SshOver /\ RefusedThenRetried)
    => /\ op.pc = "returned"
       /\ ssh.result = <<"B", ssh_port>>
       /\ \E e \in known_hosts.keys : e.host = "B"

\* no address of the call accepts a connection before the deadline
NoneAccepts ==
    \A k \in DOMAIN ssh.ips :
        \A t \in 0..(Deadline - 1) : connect(ssh.behav, ssh.ips[k], t) # "connected"

(* C20.  When no address accepts a connection before the deadline,         *)
(* node_ssh_address_and_port returns (None, None), no exception leaves it, *)
(* and the known-hosts file is as it was.                                  *)
(* (None, None) is returned when every address fails its handshake; for an *)
(* address that refuses, the timer's TimeoutError is not caught.           *)

C20_NoAddressGivesNone ==
    [][(op.cmd = "ssh" /\ ssh.pc \in {"next", "connect"} /\ NoneAccepts)
       => /\ known_hosts' = known_hosts
          /\ ssh'.pc = "done" => op'.pc = "returned" /\ ssh'.result = NoAddress]_vars

---------------------------------------------------------------------------
\* the step is the connection that node_ssh_address_and_port returns
Connects ==
    /\ op.cmd = "ssh"
    /\ ssh.pc = "connect"
    /\ ssh'.pc = "done"
    /\ op'.pc = "returned"

(* C21.  Recording the host keys after a handshake that succeeded is       *)
(* additive: what the known-hosts file held for a host other than the one  *)
(* just contacted is still there afterwards, with the same key.            *)
(* The keys merged are all those of the client: an address tried before,   *)
(* which showed a key and refused the login, has its entry rewritten too.  *)

C21_OtherHostsKept ==
    [][Connects => \A e \in known_hosts.keys :
                       e.host # ssh'.result[1] => e \in known_hosts'.keys]_vars

(* C22.  Once a key is recorded for a host, a later resolution in which    *)
(* the host offers another key is not accepted and does not replace the    *)
(* recorded key.                                                           *)
(* The client starts with no host keys and adds whatever key is offered;   *)
(* the known-hosts file is read only to be merged into.                    *)

C22_RecordedKeyStays ==
    [][op.cmd = "ssh" =>
        /\ known_hosts.keys \subseteq known_hosts'.keys
        /\ Connects => \A e \in known_hosts.keys :
                          e.host = ssh'.result[1] => e \in ssh'.client]_vars

---------------------------------------------------------------------------
\* the step is a save whose refresh raises
SaveFails == op.pc \in {"adddump", "dump"} /\ op'.pc = "raised"

(* C23.  When the listing made by the refresh inside a save raises, the    *)
(* state file still holds the document it held before: a save that fails   *)
(* never leaves the file empty.                                            *)
(* __dump opens the file for writing, which empties it, before it          *)
(* refreshes.                                                              *)

C23_FailedSaveKeepsFile ==
    [][SaveFails => file' = file /\ file'.status # "empty"]_vars


---------------------------------------------------------------------------
(* Cluster.configure: the environment map made of the setup options.       *)

\* Python's  s.startswith(prefix)
StartsWith(s, prefix) == OccursAt(s, prefix, 1)

\* Python's  s.replace(sub, ''): every occurrence goes, left to right
RECURSIVE Replace(_, _)
Replace(s, sub) ==
    LET i == FindFrom(s, sub, 1)
    IN  IF sub = <<>> \/ i = 0 THEN s
        ELSE SubSeq(s, 1, i - 1) \o Replace(SubSeq(s, i + Len(sub), Len(s)), sub)

\* a dict is a sequence of <<key, value>> in its order of iteration
HasKey(d, k) == \E i \in DOMAIN d : d[i][1] = k

\* d[k] = v
SetItem(d, k, v) ==
    IF HasKey(d, k) THEN [i \in DOMAIN d |-> IF d[i][1] = k THEN <<k, v>> ELSE d[i]]
    ELSE Append(d, <<k, v>>)

\* d.pop(k), for a key of d
Pop(d, k) == SelectSeq(d, LAMBDA kv : kv[1] # k)

\* d[k]
GetItem(d, k) == d[CHOOSE i \in DOMAIN d : d[i][1] = k][2]

var_ == <<"_", "v", "a", "r", "_">>

global_var_ == <<"g", "l", "o", "b", "a", "l">> \o var_

playbook_path == <<"p", "l", "a", "y", "b", "o", "o", "k", "_", "p", "a", "t", "h">>

\* the two prefixes tried on each key:  '{}_var_'.format(group), 'global_var_'
prefixes(group) == <<group \o var_, global_var_>>

\* configure's innermost loop for one key: under each prefix the key starts
\* with, the variable is set in the group's map and the key is popped from
\* local_options; a key that is no longer there raises KeyError
RECURSIVE each_prefix(_, _, _, _)
each_prefix(st, key, value, ps) ==
    IF ps = <<>> \/ ~st.ok THEN st
    ELSE IF ~StartsWith(key, Head(ps)) THEN each_prefix(st, key, value, Tail(ps))
    ELSE IF ~HasKey(st.local_options, key) THEN [st EXCEPT !.ok = FALSE]
    ELSE each_prefix([st EXCEPT !.vars = SetItem(@, Replace(key, Head(ps)), value),
                                !.local_options = Pop(@, key)],
                     key, value, Tail(ps))

\* configure's loop over  local_options.items()  for one group: the items
\* are those the dict held when the loop began
RECURSIVE each_item(_, _, _)
each_item(st, items, group) ==
    IF items = <<>> \/ ~st.ok THEN st
    ELSE each_item(each_prefix(st, Head(items)[1], Head(items)[2], prefixes(group)),
                   Tail(items), group)

\* configure's loop over the groups of node_types(): each group starts with
\* an empty map, also when it is met again
RECURSIVE each_group(_, _)
each_group(st, groups) ==
    IF groups = <<>> \/ ~st.ok THEN st
    ELSE LET one == each_item([ok |-> TRUE, vars |-> <<>>,
                               local_options |-> st.local_options],
                              st.local_options, Head(groups))
         IN  each_group([ok |-> one.ok,
                         environment_vars |->
                             SetItem(st.environment_vars, Head(groups), one.vars),
                         local_options |-> one.local_options],
                        Tail(groups))

\* Cluster.configure up to the call of the setup provider: [ok, call]; not
\* ok stands for KeyError.  The call holds what the provider is handed: the
\* environment map, the playbook path and the options that are left
configure(opts, setup_options, login_options) ==
    LET types  == node_types(opts)
        groups == [i \in DOMAIN types |-> types[i].node_type]
        st     == each_group([ok |-> TRUE, environment_vars |-> <<>>,
                              local_options |-> setup_options], groups)
    IN  IF ~st.ok \/ ~HasKey(st.local_options, playbook_path)
        THEN [ok |-> FALSE, call |-> <<>>]
        ELSE [ok |-> TRUE,
              call |-> [environment_vars |-> st.environment_vars,
                        playbook_path |-> GetItem(st.local_options, playbook_path),
                        sudo |-> IF login_options.image_sudo
                                 THEN login_options.image_sudo ELSE TRUE,
                        sudo_user |-> IF login_options.image_user_sudo # ""
                                      THEN login_options.image_user_sudo ELSE "root",
                        options |-> Pop(st.local_options, playbook_path)]]


\* the setup options a configuration can hold: a variable of each group, a
\* global variable and the playbook path
SetupItems ==
    { <<<<"w">> \o var_ \o <<"a">>, 1>>,
      <<<<"f">> \o var_ \o <<"b">>, 2>>,
      <<global_var_ \o <<"c">>, 3>>,
      <<playbook_path, 4>> }

\* the dicts of at most MaxSetupOptions of these items, in every order
SetupOptionSets ==
    UNION { {d \in [1..k -> SetupItems] : \A i, j \in 1..k : d[i] = d[j] => i = j}
            : k \in 0..MaxSetupOptions }

\* a cluster with a state file whose inventory is empty, or with none; its
\* setup section holds any of the setup options
InitConfigure ==
    /\ options \in OptionSets
    /\ instances = <<>>
    /\ nodes = <<>>
    /\ file \in {NoFile, Document(options, <<>>)}
    /\ stop_calls = {}
    /\ faults = 0
    /\ op = NoOp
    /\ known_hosts = NoHosts
    /\ ssh = NoSsh
    /\ setup \in {[NoSetup EXCEPT !.options = d] : d \in SetupOptionSets}
    /\ main = NoMain
    /\ peer = NoPeer
    /\ login \in LoginSets
    /\ storage = {}

\* SetupCluster.execute: the cluster is constructed and configured
BeginSetup ==
    /\ Idle
    /\ \E listing \in ListOutcomes(instances) :
         LET c == construct(file, instances, listing)
             o == [NoOp EXCEPT !.cmd = "setup"]
             r == configure(options, setup.options, login)
         IN  /\ Charge(ConstructFaults(file, instances, listing))
             /\ nodes' = c.nodes
             /\ op' = IF file.status = "absent" THEN [o EXCEPT !.error = "noconfig"]
                      ELSE IF ~c.ok THEN Raise(o, "load")
                      ELSE IF ~r.ok THEN Raise(o, "KeyError")
                      ELSE o
             /\ setup' = IF file.status # "absent" /\ c.ok /\ r.ok
                         THEN [setup EXCEPT !.calls = Append(@, r.call)]
                         ELSE setup
    /\ UNCHANGED <<options, storage, login, peer, main, known_hosts, ssh, instances, file, stop_calls>>

NextConfigure == BeginSetup \/ Exit

SpecConfigure == InitConfigure /\ [][NextConfigure]_vars

\* the groups the template gives at least one node
Populated(opts) ==
    LET types == node_types(opts)
    IN  {types[i].node_type : i \in {j \in DOMAIN types : types[j].amount > 0}}

\* the variables the setup options hold for group g: <<var, value>>
VariablesFor(g) ==
    LET items == {setup.options[i] : i \in DOMAIN setup.options}
    IN  {<<Replace(x[1][1], x[2]), x[1][2]>> :
            x \in {y \in items \X {g \o var_, global_var_} : StartsWith(y[1][1], y[2])}}

(* C24. Whenever configure hands the setup provider its call, the           *)
(* environment map of every group g of the cluster holds var = value for    *)
(* every setup option g_var_<var> and every setup option global_var_<var>   *)
(* (so every global variable is in the map of every group), and none of     *)
(* those keys is among the options forwarded with the call.                 *)
C24_EveryGroupGetsItsVariables ==
    \A i \in DOMAIN setup.calls :
        LET call == setup.calls[i]
        IN  \A g \in Populated(options) :
                /\ HasKey(call.environment_vars, g)
                /\ \A v \in VariablesFor(g) :
                       \E k \in DOMAIN GetItem(call.environment_vars, g) :
                           GetItem(call.environment_vars, g)[k] = v
                /\ \A k \in DOMAIN call.options :
                       /\ ~StartsWith(call.options[k][1], g \o var_)
                       /\ ~StartsWith(call.options[k][1], global_var_)


---------------------------------------------------------------------------
(* The command line: main() around the command's execute().                *)

\* main's exit code: sys.exit(1) under  except Exception  and under  except
\* KeyboardInterrupt;  otherwise main returns, whatever execute() returned
exit_status(o) == IF o.pc = "raised" THEN 1 ELSE 0

\* a controller whose handler of the timeout caught the interrupt as well: it
\* would go on to stop the nodes of the inventory
caught_as_timeout(o) ==
    [o EXCEPT !.error = "KeyboardInterrupt", !.timed_out = TRUE, !.snap = Ids(nodes),
              !.todo = [i \in DOMAIN nodes |-> nodes[i].name],
              !.pc = IF nodes = <<>> THEN "dump" ELSE "rollback"]

\* KeyboardInterrupt: no handler of the controller catches it, it reaches main
KeyboardInterrupt(o) == Raise(o, "KeyboardInterrupt")

\* commands that configure whenever they come to their end, whether or not
\* the controller was called
configure_always ==
    /\ op.pc = "returned"
    /\ setup.calls = <<>>
    /\ op.cmd \in {"start", "add"}

\* Start.execute and ResizeCluster.execute after the controller returned:
\* start configures unless --no-setup was given, resize configures when
\* nodes were to be added
ConfigureDue ==
    /\ op.pc = "returned"
    /\ op.error = "none"
    /\ setup.calls = <<>>
    /\ \/ op.cmd = "start" /\ ~main.no_setup
       \/ op.cmd = "add"

\* the configuration of a run: the setup section holds the playbook path;
\* the flag --no-setup is given or not; a group section may override the
\* login's key with a private key that is no .pem file
InitMain ==
    /\ options \in OptionSets
    /\ instances = <<>>
    /\ nodes = <<>>
    /\ file = NoFile
    /\ stop_calls = {}
    /\ faults = 0
    /\ op = NoOp
    /\ known_hosts = NoHosts
    /\ ssh = NoSsh
    /\ setup = [NoSetup EXCEPT !.options = <<<<playbook_path, 4>>>>]
    /\ main \in {[NoMain EXCEPT !.no_setup = b, !.invalid = S] :
                    b \in BOOLEAN, S \in {{}, {<<"f">>}}}
    /\ peer = NoPeer
    /\ login = Login
    /\ storage = {}

\* ResizeCluster.pre_run: a count of --add that is no number
PreRunError ==
    /\ Idle
    /\ op' = Raise([NoOp EXCEPT !.cmd = "add"], "ConfigurationError")
    /\ UNCHANGED <<options, storage, login, peer, setup, main, known_hosts, ssh, instances, nodes, file,
                   stop_calls, faults>>

\* CloudProvider.start_instance: _prepare_key_pair finds the group's private
\* key to be no .pem file, before driver.create_node
KeyPairError ==
    /\ op.pc = "create"
    /\ op.node_type \in main.invalid
    /\ op' = Raise(op, "ConfigurationError")
    /\ UNCHANGED <<options, storage, login, peer, setup, main, known_hosts, ssh, instances, nodes, file,
                   stop_calls, faults>>

\* the user interrupts start or resize --add while the controller works
Interrupt ==
    /\ op.cmd \in {"start", "add"}
    /\ ~Ended
    /\ op' = KeyboardInterrupt(op)
    /\ UNCHANGED <<options, storage, login, peer, setup, main, known_hosts, ssh, instances, nodes, file,
                   stop_calls, faults>>

\* cluster.configure() of Start.execute and ResizeCluster.execute
MainConfigure ==
    /\ ConfigureDue
    /\ LET r == configure(options, setup.options, login)
       IN  IF r.ok
           THEN setup' = [setup EXCEPT !.calls = Append(@, r.call)] /\ UNCHANGED op
           ELSE op' = Raise(op, "KeyError") /\ UNCHANGED setup
    /\ UNCHANGED <<options, storage, login, peer, main, known_hosts, ssh, instances, nodes, file,
                   stop_calls, faults>>

\* main ends: the warning of an interrupt is written, the exit code is set
MainExit ==
    /\ Ended
    /\ ~ConfigureDue
    /\ main.exit = NoMain.exit
    /\ main' = [main EXCEPT !.exit = exit_status(op),
                            !.warned = (op.error = "KeyboardInterrupt")]
    /\ UNCHANGED <<options, storage, login, peer, setup, known_hosts, ssh, instances, nodes, file,
                   stop_calls, faults, op>>

NextMain == Next \/ PreRunError \/ KeyPairError \/ Interrupt \/ MainConfigure \/ MainExit

SpecMain == InitMain /\ [][NextMain]_vars


\* a run of start and resize --add only, which the user may interrupt
InitInterrupt ==
    /\ options \in OptionSets
    /\ instances = <<>>
    /\ nodes = <<>>
    /\ file = NoFile
    /\ stop_calls = {}
    /\ faults = 0
    /\ op = NoOp
    /\ known_hosts = NoHosts
    /\ ssh = NoSsh
    /\ setup = [NoSetup EXCEPT !.options = <<<<playbook_path, 4>>>>]
    /\ main = NoMain
    /\ peer = NoPeer
    /\ login = Login
    /\ storage = {}

NextInterrupt ==
    \/ CloudBoot
    \/ BeginStart
    \/ BeginAdd
    \/ AddEnter
    \/ Create
    \/ AddPoll
    \/ AddTimeout
    \/ AddDump
    \/ StartPoll
    \/ StartSteady
    \/ StartTimeout
    \/ StartRollback
    \/ StartDump
    \/ Interrupt
    \/ MainConfigure
    \/ MainExit
    \/ Exit

SpecInterrupt == InitInterrupt /\ [][NextInterrupt]_vars


\* the instances that were not destroyed
Live(inst) == {i \in DOMAIN inst : inst[i].state # "terminated"}

\* a step that ends in, or is taken after, an interrupt of start or add
Interrupted == op'.error = "KeyboardInterrupt"

NothingStopped ==
    /\ stop_calls' = stop_calls
    /\ Live(instances) \subseteq Live(instances')
    /\ main'.exit # NoMain.exit => main'.exit # 0 /\ main'.warned

(* C26.  From the interrupt of a start or an add on, the process invokes no *)
(* provider stop: the set of stop calls stays as it is and every instance   *)
(* that was live stays live; when the process exits, the warning has been   *)
(* written and the exit code is not 0.                                      *)
C26_InterruptStopsNothing == [][Interrupted => NothingStopped]_vars

\* the process was interrupted after it created an instance, which is live,
\* and has exited with the warning
C26_InterruptedAfterCreate ==
    /\ op.error = "KeyboardInterrupt"
    /\ \E i \in op.made : i \in Live(instances)
    /\ main.exit = 1
    /\ main.warned


(* C25.  When the process of a command has exited and the command had found *)
(* no active configuration for the cluster, the exit code is not 0; the     *)
(* exit code is 0 only when the command neither raised nor found no         *)
(* configuration.                                                           *)
C25_NoConfigurationExitsNonZero ==
    main.exit = 0 => op.pc = "returned" /\ op.error # "noconfig"

(* C27.  When a start or a resize ends in a ConfigurationError, the process *)
(* has created no instance, and the state file of a start holds no node.    *)
C27_ConfigurationErrorBeforeAnyChange ==
    op.error = "ConfigurationError" =>
        /\ op.made = {}
        /\ op.cmd = "start" => file.nodes = <<>>

(* C28.  A resize run with --no-setup makes no call of configure, also when *)
(* it added nodes.                                                          *)
C28_NoSetupNeverConfigures ==
    op.cmd = "add" /\ main.no_setup => setup.calls = <<>>

(* C29.  The start command calls configure only when start() found every    *)
(* node running: after a start() that timed out and rolled the cluster back *)
(* no call of configure is made.                                            *)
C29_ConfigureOnlyWhenSteady ==
    op.cmd = "start" /\ op.timed_out => setup.calls = <<>>


---------------------------------------------------------------------------
(* Two processes of the command line on the same cluster.                  *)

\* a cluster that was started and holds no node: its state file is there
InitPeers ==
    /\ options \in OptionSets
    /\ instances = <<>>
    /\ nodes = <<>>
    /\ file = Document(options, <<>>)
    /\ stop_calls = {}
    /\ faults = 0
    /\ op = NoOp
    /\ known_hosts = NoHosts
    /\ ssh = NoSsh
    /\ setup = NoSetup
    /\ main = NoMain
    /\ peer = NoPeer
    /\ login = Login
    /\ storage = {}

\* the scheduler lets the other process run: each process keeps its own
\* command and its own Cluster.nodes; provider and state file are shared
Switch ==
    /\ op' = peer.op
    /\ nodes' = peer.nodes
    /\ peer' = [op |-> op, nodes |-> nodes]
    /\ UNCHANGED <<options, storage, login, known_hosts, ssh, setup, main, instances, file,
                   stop_calls, faults>>

\* two processes that run resize --add
NextPeers ==
    \/ CloudBoot
    \/ BeginAdd
    \/ AddEnter
    \/ Create
    \/ AddPoll
    \/ AddTimeout
    \/ AddDump
    \/ Exit
    \/ Switch

SpecPeers == InitPeers /\ [][NextPeers]_vars

\* the running process saves the state file at the end of add
PeerSaves == op.pc = "adddump" /\ op'.pc = "returned" /\ peer' = peer

\* the nodes of the saving process: those it loaded and those it created
Own == op.snap \cup op.made

LastWriterWins ==
    /\ Ids(file'.nodes) = Ids(nodes')
    /\ Ids(file'.nodes) \subseteq Own
    /\ \A i \in peer.op.made \ Own : i \notin Ids(file'.nodes)

(* C30.  When one of two concurrent processes saves the state file, the     *)
(* file then holds exactly the inventory of the saving process, made of     *)
(* nodes that process loaded or created itself: a node that only the other  *)
(* process created is not in the file.                                      *)
C30_LastWriterWins == [][PeerSaves => LastWriterWins]_vars


\* remove_by_name was called by remove-node and has returned
RemoveNodeReturned == op.cmd = "remove_by_name" /\ op.pc = "returned" /\ op.error = "none"

(* C31.  Whenever start, add, remove or remove_by_name has returned         *)
(* normally, the names of the nodes in the state file are the names of the  *)
(* nodes in the inventory of the process.                                   *)
C31_FileNamesAreInventoryNames ==
    StartReturned \/ AddReturned \/ RemoveReturned \/ RemoveNodeReturned
        => Names(file.nodes) = Names(nodes)


(* C32.  In every reachable state the nodes of the inventory have pairwise  *)
(* different names.                                                         *)
C32_InventoryNamesDistinct ==
    \A i, j \in DOMAIN nodes : nodes[i].name = nodes[j].name => i = j


\* add reads the last allocated index of the group it is asked for
ReadsIndex == op.pc = "add" /\ op'.pc # "add" /\ op' # op

\* what the allocator read is the largest index among the nodes whose name
\* was generated for that group, and reading it raised nothing
ReadBack ==
    /\ op'.pc # "raised"
    /\ op'.base = MaxOf(GroupIndices(nodes, Head(op.types).node_type))

(* C33.  The allocator of group g counts exactly the nodes of the inventory *)
(* whose name was generated from g, each with the index it was generated    *)
(* from: the index it reads is the largest of those (0 if there is none),   *)
(* also when the name of one group is part of the name of another.          *)
C33_NamesParseBack == [][ReadsIndex => ReadBack]_vars


\* one call of remove_by_name by remove, remove-node, stop or the rollback
RemoveByNameStep == op.pc \in {"removing", "stopping", "rollback"} /\ op' # op

\* the nodes that leave the inventory in this step
Gone == Ids(nodes) \ Ids(nodes')

\* the state file is written only with the node evicted, and the node is
\* evicted only with its instance stopped and destroyed
WrittenAfterDestroy ==
    file' # file =>
        /\ Ids(file'.nodes) = Ids(nodes')
        /\ \E i \in Gone : i \in stop_calls' /\ instances'[i].state = "terminated"

\* when the provider's stop raises, the node stays and the file is as before
RaiseKeepsNode ==
    (op'.pc = "raised" /\ stop_calls' # stop_calls) =>
        /\ file' = file
        /\ (stop_calls' \ stop_calls) \subseteq Ids(nodes')

(* C34.  In a remove_by_name that finds its node, the state file is written *)
(* after the node was evicted, and the node is evicted after its instance   *)
(* was stopped (floating address released, instance destroyed); when the    *)
(* provider's stop raises, the node stays in the inventory and the state    *)
(* file is not rewritten.                                                   *)
C34_DestroyEvictWrite == [][RemoveByNameStep => WrittenAfterDestroy /\ RaiseKeepsNode]_vars


\* the position of address a among the addresses of the node
Position(a) == CHOOSE k \in DOMAIN ssh.ips : ssh.ips[k] = a

\* the attempts were made in the order of the addresses, private first
InOrder ==
    \A i, j \in DOMAIN ssh.tried :
        i <= j => Position(ssh.tried[i]) <= Position(ssh.tried[j])

\* the call is over and gave no address
SshFailed == SshOver /\ (op.pc = "raised" \/ ssh.result = NoAddress)

---------------------------------------------------------------------------
(* The loops of start, add and node_ssh_address_and_port under fairness.   *)

\* One command on a cluster that is not there yet, or on a cluster that was
\* started with the node c-w001, which is running and saved
Started == <<[name |-> node_name(<<"w">>, 1), state |-> "running"]>>

InitLive ==
    /\ options \in OptionSets
    /\ \/ instances = <<>> /\ file = NoFile
       \/ /\ options[1][2] >= 1
          /\ instances = Started
          /\ file = Document(options, <<NodeOf(Started, 1)>>)
    /\ nodes = <<>>
    /\ stop_calls = {}
    /\ faults = 0
    /\ op = NoOp
    /\ known_hosts = NoHosts
    /\ ssh = NoSsh
    /\ setup = NoSetup
    /\ main = NoMain
    /\ peer = NoPeer
    /\ login = Login
    /\ storage = {}

\* start, resize --add and ssh, up to the end of the command
NextLive ==
    \/ CloudBoot
    \/ BeginStart
    \/ BeginAdd
    \/ AddEnter
    \/ Create
    \/ AddPoll
    \/ AddTimeout
    \/ AddDump
    \/ StartPoll
    \/ StartSteady
    \/ StartTimeout
    \/ StartRollback
    \/ StartDump
    \/ BeginSsh
    \/ SshNextAddress
    \/ SshConnect

\* Every call returns: the step of the controller that is due is taken in
\* the end.  The timers go off: a wait that has polled does not go on for
\* ever.  Nothing is assumed of the provider's boot or of the user.
Returning ==
    /\ WF_vars(AddEnter)
    /\ WF_vars(Create)
    /\ WF_vars(AddPoll)
    /\ WF_vars(AddTimeout)
    /\ WF_vars(AddDump)
    /\ WF_vars(StartPoll)
    /\ WF_vars(StartSteady)
    /\ WF_vars(StartTimeout)
    /\ WF_vars(StartRollback)
    /\ WF_vars(StartDump)
    /\ WF_vars(SshNextAddress)
    /\ WF_vars(SshConnect)

SpecLive == InitLive /\ [][NextLive]_vars /\ Returning

\* start, add with wait or the resolution of an address is in progress
Looping == op.cmd \in {"start", "add", "ssh"} /\ ~Ended

(* C36.  When every provider call and every SSH call returns, a start, an   *)
(* add with wait and a node_ssh_address_and_port that began come to an end: *)
(* each of their loops is left, by its condition or by its deadline.        *)
C36_LoopsTerminate == Looping ~> Ended

\* a start has ended whose wait was left by the deadline, and with it the
\* rollback that stopped the node
C36_LeftByDeadline ==
    /\ op.cmd = "start"
    /\ Ended
    /\ op.timed_out
    /\ stop_calls # {}


---------------------------------------------------------------------------
(* Templates with a minimum count next to the count of the group.          *)

\* the option '<group>_nodes_min' (also what '<group>_min_nodes' is renamed to)
NodesMinKey(g) == NodesKey(g) \o <<"_", "m", "i", "n">>

\* templates of one group w with its count and its minimum count
MinOptionSets ==
    {<< <<NodesKey(<<"w">>), a>>, <<NodesMinKey(<<"w">>), b>> >> :
        a \in 0..MaxCount, b \in 0..1}

InitMin == options \in MinOptionSets /\ Fresh

SpecMin == InitMin /\ [][Next]_vars

\* the instances this start created for group g
MadeFor(g) == {i \in op.made : \E x \in 1..(MaxInst + 1) : instances[i].name = node_name(g, x)}

(* C37.  When start() has returned, it has issued for every group exactly   *)
(* as many creates as the option <group>_nodes states, none for a count of  *)
(* zero, whatever other options the template holds.                         *)
C37_CreatesAsManyAsStated ==
    StartReturned =>
        \A g \in Groups(options) :
            HasKey(options, NodesKey(g)) =>
                Cardinality(MadeFor(g)) = GetItem(options, NodesKey(g))


\* a step of, or beside, a start command that found the cluster started
AlreadyStarted == op.error = "started" \/ op'.error = "started"

NoEffect ==
    /\ Len(instances') = Len(instances)
    /\ stop_calls' = stop_calls
    /\ setup'.calls = <<>>
    /\ file' = file

(* C38.  A start command that finds a non-empty inventory when the cluster  *)
(* is constructed does nothing to the resources: from there to its exit no  *)
(* instance is created, none is stopped, configure is not called and the    *)
(* state file stays as it is.                                               *)
C38_StartOfStartedIsNoOp == [][AlreadyStarted => NoEffect]_vars

\* a start command found its cluster started and has exited with code 0
C38_FoundStarted ==
    /\ op.cmd = "start"
    /\ op.error = "started"
    /\ nodes # <<>>
    /\ main.exit = 0


---------------------------------------------------------------------------
(* The storage directory is shared: the state files and known-hosts files  *)
(* of the other clusters and the key files are kept next to the cluster's. *)

\* the extension of a key file
pem == <<".", "p", "e", "m">>

\* what else the storage directory may hold: the files of a cluster named
\* c.b and of a cluster named d, the key file of a key pair named k and
\* the one of a key pair named as the cluster
OtherFiles ==
    {storage_file_path(<<"c", ".", "b">>), known_host_file(<<"c", ".", "b">>),
     storage_file_path(<<"d">>), known_host_file(<<"d">>),
     <<"k">> \o pem, ClusterName \o pem}

\* a cluster that was never started, or one with its first node running,
\* in a storage directory that holds other files
InitStorage ==
    /\ options \in OptionSets
    /\ \/ instances = <<>> /\ file = NoFile
       \/ /\ options[1][2] >= 1
          /\ instances = Started
          /\ file = Document(options, <<NodeOf(Started, 1)>>)
    /\ storage \in SUBSET OtherFiles
    /\ nodes = <<>>
    /\ stop_calls = {}
    /\ faults = 0
    /\ op = NoOp
    /\ known_hosts = NoHosts
    /\ ssh = NoSsh
    /\ setup = NoSetup
    /\ main = NoMain
    /\ peer = NoPeer
    /\ login = Login

\* the stop command
NextStorage ==
    \/ BeginStop
    \/ StopStep
    \/ StopUnlink
    \/ Exit

SpecStorage == InitStorage /\ [][NextStorage]_vars

(* C39. stop() of the cluster deletes only its own state file and          *)
(* known-hosts file: every other file of the storage directory, the files  *)
(* of a cluster whose name is this cluster's name followed by a dot and    *)
(* more, and the key files, is still there afterwards.                     *)
C39_StopKeepsOtherFiles == [][op.cmd = "stop" => storage' = storage]_vars


(* C40. Every call of the setup provider made by configure carries a sudo  *)
(* flag equal to the login's image_sudo option, false when the option is   *)
(* false and true when it is true, and as sudo user the login's            *)
(* image_user_sudo, which is root unless the configuration overrides it.   *)
C40_SudoAsLoginSays ==
    \A i \in DOMAIN setup.calls :
        /\ setup.calls[i].sudo = login.image_sudo
        /\ setup.calls[i].sudo_user = login.image_user_sudo

=============================================================================
